---- MODULE Spec2Model ----
(***************************************************************************)
(* Model of litellm/proxy/openai_files_endpoints/files_endpoints.py: the   *)
(* process-wide files configuration (set_files_config,                     *)
(* get_files_provider_config), the batch-file model sniffer, the           *)
(* create-file dispatch and the five /v1/files handlers with their         *)
(* exception normalisation.                                                *)
(*                                                                         *)
(* Conventions.  A Python string is a sequence of its "/"-separated        *)
(* segments (<<"openai">>, <<"os.environ", "OPENAI_KEY">>); Python None is *)
(* the empty sequence.  A dict is a function from its keys.  An Optional   *)
(* of anything else is a sequence of length at most one.                   *)
(***************************************************************************)
EXTENDS Integers, Sequences, FiniteSets, TLC

\* Most lines in an uploaded file.
MaxFileLines == 2

None == <<>>
Str(s) == <<s>>
SecretRef(name) == <<"os.environ", name>>

\* isinstance(value, str)
IsStr(v) == Len(v) > 0
\* value.startswith("os.environ/")
StartsWithSecretPrefix(v) == Len(v) >= 2 /\ v[1] = "os.environ"

\* dict.get(key) with the default None
DictGet(d, k) == IF k \in DOMAIN d THEN d[k] ELSE None
\* dict.update(other): the other dict's values replace this dict's
DictUpdate(d, other) ==
    [k \in (DOMAIN d) \cup (DOMAIN other) |-> IF k \in DOMAIN other THEN other[k] ELSE d[k]]
\* dict.pop(key, None)
DictPop(d, k) == [x \in (DOMAIN d) \ {k} |-> d[x]]
EmptyDict == [k \in {} |-> None]

VARIABLES
    files_config,      \* the module global: None, or <<list>> once a list was set
    secrets,           \* the environment-backed secret store
    enable_loadbalancing_on_batch_endpoints,  \* litellm's global flag
    llm_router,        \* proxy_server.llm_router: None, or <<model names>>
    last_set,          \* the latest set_files_config call: input, config before, outcome
    list_supplied,     \* history: some set_files_config call was given a list
    last,              \* the latest request: inputs, backend calls, outcome
    w_pc,              \* a set_files_config call taken step by step: "idle" or "loop"
    w_before,          \* the global as that call found it
    w_config,          \* the list that call was given, as far as it is rewritten
    w_i,               \* the element its loop is at
    w_seen,            \* the keys of that element its inner loop has visited
    r_pc,              \* a get_files_provider_config call: "idle", "scan" or "done"
    r_provider,        \* the provider that call looks up
    r_result           \* what that call returned or raised

----------------------------------------------------------------------------
(* The secret store and the configuration records *)

SecretNames == {"OPENAI_KEY", "OPENAI_BASE"}

SecretValue(v) == [raises |-> FALSE, value |-> v]
SecretFailure == [raises |-> TRUE, value |-> None]

\* The stores the model starts from: every secret set; one missing (get_secret_str
\* returns None); one whose lookup fails; one whose value is itself a reference.
SecretStores ==
    { [OPENAI_KEY |-> SecretValue(Str("sk-1")), OPENAI_BASE |-> SecretValue(Str("https://o"))],
      [OPENAI_KEY |-> SecretValue(Str("sk-1")), OPENAI_BASE |-> SecretValue(None)],
      [OPENAI_KEY |-> SecretValue(Str("sk-1")), OPENAI_BASE |-> SecretFailure],
      [OPENAI_KEY |-> SecretValue(Str("sk-1")), OPENAI_BASE |-> SecretValue(SecretRef("OPENAI_KEY"))] }

\* litellm.get_secret_str on a value that starts with "os.environ/"
get_secret_str(value, store) ==
    IF value[2] \in DOMAIN store THEN store[value[2]] ELSE SecretValue(None)

ElemOpenAI ==
    [custom_llm_provider |-> Str("openai"),
     api_key |-> SecretRef("OPENAI_KEY"),
     api_base |-> SecretRef("OPENAI_BASE")]
ElemCustom ==
    [custom_llm_provider |-> Str("customprov"), api_base |-> Str("https://x")]
ElemCustomPurpose ==
    [custom_llm_provider |-> Str("customprov"), purpose |-> Str("assistants")]
ElemVertex ==
    [custom_llm_provider |-> Str("vertex_ai"), api_base |-> Str("https://v")]

ConfigElements == {ElemOpenAI, ElemCustom, ElemCustomPurpose, ElemVertex}

\* The lists handed to set_files_config: none or one record for a provider, two
\* records for the same provider in both orders, records for different providers.
ConfigLists ==
    { <<>>, <<ElemOpenAI>>, <<ElemCustom>>, <<ElemCustom, ElemCustomPurpose>>,
      <<ElemCustomPurpose, ElemCustom>>, <<ElemVertex, ElemOpenAI>> }

\* What a caller hands to set_files_config: None, something that is no list, a list.
ConfigInputs ==
    { [kind |-> "absent", list |-> <<>>], [kind |-> "nonlist", list |-> <<>>] }
    \cup { [kind |-> "list", list |-> l] : l \in ConfigLists }

----------------------------------------------------------------------------
(* set_files_config *)

\* lines 51-53 for one value of one element
ResolveValue(value, store) ==
    IF IsStr(value) /\ StartsWithSecretPrefix(value)
    THEN get_secret_str(value, store).value
    ELSE value

ValueRaises(value, store) ==
    IsStr(value) /\ StartsWithSecretPrefix(value) /\ get_secret_str(value, store).raises

\* lines 50-53 for one element, all its keys
ResolveElement(element, store) ==
    [k \in DOMAIN element |-> ResolveValue(element[k], store)]

ElementRaises(element, store) ==
    \E k \in DOMAIN element : ValueRaises(element[k], store)

\* lines 49-53 for the whole list
ResolveList(list, store) ==
    [i \in 1..Len(list) |-> ResolveElement(list[i], store)]

ListRaises(list, store) ==
    \E i \in 1..Len(list) : ElementRaises(list[i], store)

\* set_files_config taking an absent input as "no configuration": it resets
set_files_config_resetting(config, current, store) ==
    IF config.kind = "absent"
    THEN [files_config |-> None, outcome |-> "returned"]
    ELSE IF config.kind # "list"
    THEN [files_config |-> current, outcome |-> "ValueError"]
    ELSE IF ListRaises(config.list, store)
    THEN [files_config |-> current, outcome |-> "SecretError"]
    ELSE [files_config |-> <<ResolveList(config.list, store)>>, outcome |-> "returned"]

\* The whole call: the new value of the global and how the call ended.
set_files_config(config, current, store) ==
    IF config.kind = "absent"
    THEN [files_config |-> current, outcome |-> "returned"]
    ELSE IF config.kind # "list"
    THEN [files_config |-> current, outcome |-> "ValueError"]
    ELSE IF ListRaises(config.list, store)
    THEN [files_config |-> current, outcome |-> "SecretError"]
    ELSE [files_config |-> <<ResolveList(config.list, store)>>, outcome |-> "returned"]

----------------------------------------------------------------------------
(* get_files_provider_config *)

RECURSIVE FirstMatch(_, _, _)
\* lines 66-69: the first setting of the list, from index i on, for the provider
FirstMatch(list, i, custom_llm_provider) ==
    IF i > Len(list) THEN [found |-> FALSE, setting |-> EmptyDict]
    ELSE IF DictGet(list[i], "custom_llm_provider") = Str(custom_llm_provider)
    THEN [found |-> TRUE, setting |-> list[i]]
    ELSE FirstMatch(list, i + 1, custom_llm_provider)

\* What a lookup gives. kind: "none" (returns None), "setting" (returns a record),
\* "ValueError" (raises), "scan" (has not returned yet and goes on to the loop)
ProviderConfig(kind, setting) == [kind |-> kind, setting |-> setting]

\* The lookup without the vertex_ai special case
provider_config_no_special_case(custom_llm_provider, config) ==
    IF config = None THEN ProviderConfig("ValueError", EmptyDict)
    ELSE ProviderConfig("scan", EmptyDict)

\* lines 62-65: the special case and the check that a configuration was set
provider_config_early_return(custom_llm_provider, config) ==
    IF custom_llm_provider = "vertex_ai" THEN ProviderConfig("none", EmptyDict)
    ELSE IF config = None THEN ProviderConfig("ValueError", EmptyDict)
    ELSE ProviderConfig("scan", EmptyDict)

\* lines 66-69: the loop over the list
provider_config_scan(custom_llm_provider, config) ==
    LET m == FirstMatch(config[1], 1, custom_llm_provider)
    IN  IF m.found THEN ProviderConfig("setting", m.setting)
        ELSE ProviderConfig("none", EmptyDict)

\* The lookup taking "no configuration set" as "no override"
get_files_provider_config_lenient(custom_llm_provider, config) ==
    IF custom_llm_provider = "vertex_ai" \/ config = None
    THEN ProviderConfig("none", EmptyDict)
    ELSE provider_config_scan(custom_llm_provider, config)

\* lines 58-69, the whole call
get_files_provider_config(custom_llm_provider, config) ==
    LET early == provider_config_early_return(custom_llm_provider, config)
    IN  IF early.kind # "scan" THEN early
        ELSE provider_config_scan(custom_llm_provider, config)

----------------------------------------------------------------------------
(* The uploaded file and the model sniffer *)

\* A JSON value as json.loads returns it, as far as the sniffer looks: its type t,
\* its size n (a number's value, a string's or array's length), an object's keys,
\* and what the key "body" holds: a value of the same shape, with the value of
\* its key "model" for an object.
JsonBody(t, n, model) == [t |-> t, n |-> n, model |-> model]
NoBody == JsonBody("absent", 0, None)
Json(t, n, keys, body) == [t |-> t, n |-> n, keys |-> keys, body |-> body]
JsonObject(keys, body) == Json("object", Cardinality(keys), keys, body)
BatchLine(model) ==
    JsonObject({"custom_id", "body"}, JsonBody("object", 1, Str(model)))

\* A line of the decoded text, by what json.loads makes of line.strip(): "blank"
\* (nothing but whitespace), "garbage" (no JSON), "json" (the text of a value).
TextLine(text, value) == [text |-> text, value |-> value]
JsonLine(value) == TextLine("json", value)
BlankLine == TextLine("blank", Json("null", 0, {}, NoBody))
GarbageLine == TextLine("garbage", Json("null", 0, {}, NoBody))

FirstLines ==
    { BlankLine, GarbageLine,
      JsonLine(Json("null", 0, {}, NoBody)),
      JsonLine(Json("number", 5, {}, NoBody)),
      JsonLine(Json("array", 1, {}, NoBody)),
      JsonLine(JsonObject({}, NoBody)),
      JsonLine(JsonObject({"custom_id"}, NoBody)),
      JsonLine(JsonObject({"body"}, JsonBody("null", 0, None))),
      JsonLine(JsonObject({"body"}, JsonBody("string", 1, None))),
      JsonLine(JsonObject({"body"}, JsonBody("object", 1, None))),
      JsonLine(BatchLine("gpt-4")),
      JsonLine(BatchLine("gpt-3.5")) }

\* The lines after the first all name a model the pool knows.
LaterLine == JsonLine(BatchLine("gpt-4"))

\* The uploaded bytes: whether they are valid UTF-8, and the lines of their text.
FileBytes(utf8, lines) == [utf8 |-> utf8, lines |-> lines]
EmptyFile == FileBytes(TRUE, <<>>)
InvalidUtf8File == FileBytes(FALSE, <<>>)
FileContents ==
    { EmptyFile, InvalidUtf8File }
    \cup { FileBytes(TRUE, [i \in 1..n |-> IF i = 1 THEN first ELSE LaterLine]) :
             first \in FirstLines, n \in 1..MaxFileLines }

\* bool(value)
Truthy(v) ==
    CASE v.t = "null" -> FALSE
      [] v.t = "object" -> v.keys # {}
      [] OTHER -> v.n # 0

\* The result of a call that may raise: the exception's class, "" when it returned.
Returned(value) == [raised |-> "", value |-> value]
Raised(cls) == [raised |-> cls, value |-> Json("null", 0, {}, NoBody)]

\* lines 75-80, before the except clause
first_json_object_body(file_content_bytes) ==
    IF ~file_content_bytes.utf8 THEN Raised("UnicodeDecodeError")
    ELSE IF Len(file_content_bytes.lines) = 0 THEN Raised("IndexError")
    ELSE LET first_line == file_content_bytes.lines[1]
         IN  IF first_line.text # "json" THEN Raised("JSONDecodeError")
             ELSE Returned(first_line.value)

\* lines 72-82: JSONDecodeError and UnicodeDecodeError become None (JSON null here)
get_first_json_object(file_content_bytes) ==
    LET r == first_json_object_body(file_content_bytes)
    IN  IF r.raised \in {"JSONDecodeError", "UnicodeDecodeError"}
        THEN Returned(Json("null", 0, {}, NoBody))
        ELSE r

\* lines 85-89: raised is "AttributeError" when .get is called on what has none
get_model_from_json_obj(json_object) ==
    IF json_object.t # "object" THEN [raised |-> "AttributeError", model |-> None]
    ELSE LET got == IF "body" \in json_object.keys THEN json_object.body
                    ELSE JsonBody("object", 0, None)
             truthy == got.t # "null" /\ got.n # 0
         IN  IF ~truthy THEN [raised |-> "", model |-> None]
             ELSE IF got.t # "object" THEN [raised |-> "AttributeError", model |-> None]
             ELSE [raised |-> "", model |-> got.model]

ModelNames == {"gpt-4"}
\* llm_router: None, or the router with its model names
Routers == { None, <<ModelNames>> }

\* is_known_model without the membership test: any sniffed model counts as known
is_known_model_any(model, router) ==
    model # None /\ router # None

\* lines 92-104
is_known_model(model, router) ==
    IF model = None \/ router = None THEN FALSE
    ELSE model[1] \in router[1]

----------------------------------------------------------------------------
(* Exceptions and their normalisation *)

\* An exception: its class, str(e) (str(e.detail) for an HTTPException), and the
\* attributes the handlers read with getattr, None when the object has none.
Exc(cls, text, status_code, message, type, param) ==
    [cls |-> cls, text |-> text, status_code |-> status_code,
     message |-> message, type |-> type, param |-> param]

PlainError(cls, text) == Exc(cls, text, None, None, None, None)
\* fastapi.HTTPException(status_code, detail)
HTTPException(status_code, detail) ==
    Exc("HTTPException", detail, <<status_code>>, None, None, None)

RouterNotInitialized ==
    HTTPException(500, "LLM Router not initialized. Ensure models added to proxy.")
FilesConfigNotSet ==
    PlainError("ValueError", "files_config is not set, set it on your config.yaml file.")
InvalidResponse ==
    PlainError("ValueError", "Invalid response - response.response is None")

\* str(e) of the exceptions Python itself raises in the sniffer
ErrorText(cls) ==
    IF cls = "IndexError" THEN "list index out of range"
    ELSE IF cls = "AttributeError" THEN "object has no attribute 'get'"
    ELSE cls

\* What a collaborator can raise: an exception without attributes, a provider
\* error that carries status_code, message and type, an HTTPException.
CollaboratorError == PlainError("Exception", "boom")
ProviderError ==
    Exc("RateLimitError", "rate limited", <<429>>, Str("rate limited"),
        Str("throttling_error"), None)
UpstreamHTTPError == HTTPException(404, "Not Found")

\* getattr(e, name, default)
GetAttr(attr, default) == IF attr = None THEN default ELSE attr[1]

ProxyException(message, type, param, code) ==
    [kind |-> "ProxyException", cls |-> "ProxyException",
     message |-> message, type |-> type, param |-> param, code |-> code]
\* An exception that leaves the handler as it is.
RawException(e) ==
    [kind |-> "raw", cls |-> e.cls, message |-> e.text, type |-> "", param |-> "", code |-> 0]
\* The handler returned: the backend's result, or the passed-through response.
Response(body) ==
    [kind |-> "response", cls |-> "", message |-> body, type |-> "", param |-> "", code |-> 200]

\* lines 257-271 (and the same lines of the other four handlers)
normalize_exception(e) ==
    IF e.cls = "HTTPException"
    THEN ProxyException(GetAttr(e.message, e.text), GetAttr(e.type, "None"),
                        GetAttr(e.param, "None"), GetAttr(e.status_code, 400))
    ELSE ProxyException(GetAttr(e.message, e.text), GetAttr(e.type, "None"),
                        GetAttr(e.param, "None"), GetAttr(e.status_code, 500))

\* lines 247-271: the except clause. The failure hook is awaited first; when it
\* raises, its exception leaves the handler and nothing is normalised.
HookError == PlainError("HookError", "post_call_failure_hook failed")
handle_exception(e, hook_raises) ==
    IF hook_raises THEN RawException(HookError) ELSE normalize_exception(e)

----------------------------------------------------------------------------
(* Requests *)

\* Where a collaborator raises during the request, and what.
Failure(at, exc) == [at |-> at, exc |-> exc]
NoFailure == Failure("none", CollaboratorError)
Failures ==
    { NoFailure, Failure("pre", CollaboratorError), Failure("headers", CollaboratorError) }
    \cup { Failure("backend", e) : e \in {CollaboratorError, ProviderError, UpstreamHTTPError} }

\* The provider of the path and the provider found in the request body.
ProviderInputs ==
    { [provider |-> None, body_provider |-> None],
      [provider |-> None, body_provider |-> Str("customprov")],
      [provider |-> Str("vertex_ai"), body_provider |-> Str("customprov")] }

Request(op, p, file, failure, hook_raises, has_transport) ==
    [op |-> op, provider |-> p.provider, body_provider |-> p.body_provider,
     purpose |-> "batch", file_id |-> "abc", file |-> file,
     failure |-> failure, hook_raises |-> hook_raises, has_transport |-> has_transport]

\* provider or get_custom_llm_provider_from_request_body(request) or "openai"
EffectiveProvider(inp) ==
    IF inp.provider # None THEN inp.provider[1]
    ELSE IF inp.body_provider # None THEN inp.body_provider[1]
    ELSE "openai"

\* What add_litellm_data_to_request adds to data.
RequestContext == [litellm_call_id |-> Str("call-1"), metadata |-> Str("caller")]
add_litellm_data_to_request(data) == DictUpdate(data, RequestContext)

\* A call of a backend: the function, its keyword arguments but the provider, and
\* the custom_llm_provider argument (None for the router, which takes none).
Call(fn, kwargs, custom_llm_provider) ==
    [fn |-> fn, kwargs |-> kwargs, custom_llm_provider |-> custom_llm_provider]

\* The try block of a handler, as far as it got: the exception that ended it (None
\* when it returned), data as the except clause sees it, the backend calls made,
\* whether update_request_status(success) was scheduled, and the sniffer's results.
Attempt(exc, data, calls, success_scheduled, router_model, is_router_model, body) ==
    [exc |-> exc, data |-> data, calls |-> calls, success_scheduled |-> success_scheduled,
     router_model |-> router_model, is_router_model |-> is_router_model, body |-> body]

\* The handler as if it scheduled the success notification last, once the headers
\* are built: a failure of the headers leaves it unscheduled
after_backend_notifying_last(inp, data, calls, router_model, is_router_model) ==
    IF inp.failure.at = "headers"
    THEN Attempt(<<inp.failure.exc>>, data, calls, FALSE, router_model, is_router_model, "")
    ELSE Attempt(None, data, calls, TRUE, router_model, is_router_model, "backend result")

\* lines 223-246 (and the same of get, delete, list): after the backend returned
after_backend(inp, data, calls, router_model, is_router_model) ==
    IF inp.failure.at = "headers"
    THEN Attempt(<<inp.failure.exc>>, data, calls, TRUE, router_model, is_router_model, "")
    ELSE Attempt(None, data, calls, TRUE, router_model, is_router_model, "backend result")

\* The await of the backend call and what follows it.
call_backend(inp, data, call, router_model, is_router_model) ==
    IF inp.failure.at = "backend"
    THEN Attempt(<<inp.failure.exc>>, data, <<call>>, FALSE, router_model, is_router_model, "")
    ELSE after_backend(inp, data, <<call>>, router_model, is_router_model)

----------------------------------------------------------------------------
(* create_file *)

Sniffed(raised, router_model, is_router_model) ==
    [raised |-> raised, router_model |-> router_model, is_router_model |-> is_router_model]

\* lines 183-191: raised is the class of the exception that escaped, "" if none
sniff_router_model(file_content, flag, router) ==
    IF ~flag THEN Sniffed("", None, FALSE)
    ELSE LET json_obj == get_first_json_object(file_content)
         IN  IF json_obj.raised # "" THEN Sniffed(json_obj.raised, None, FALSE)
             ELSE IF ~Truthy(json_obj.value) THEN Sniffed("", None, FALSE)
             ELSE LET m == get_model_from_json_obj(json_obj.value)
                  IN  IF m.raised # "" THEN Sniffed(m.raised, None, FALSE)
                      ELSE Sniffed("", m.model, is_known_model(m.model, router))

\* The merge the other way round: the record only fills the keys the request lacks
merge_request_wins(request, llm_provider_config) ==
    IF llm_provider_config.kind = "setting"
    THEN DictPop(DictUpdate(llm_provider_config.setting, request), "custom_llm_provider")
    ELSE DictPop(request, "custom_llm_provider")

\* lines 216-219: the settings record, if any, is written over the request, then
\* the key custom_llm_provider is dropped
merge_provider_config(request, llm_provider_config) ==
    IF llm_provider_config.kind = "setting"
    THEN DictPop(DictUpdate(request, llm_provider_config.setting), "custom_llm_provider")
    ELSE DictPop(request, "custom_llm_provider")

\* lines 195-199: the router branch is taken
takes_router_branch(flag, is_router_model, router_model) ==
    flag /\ is_router_model /\ router_model # None

\* lines 156-246: the try block
create_file_try(inp) ==
    LET custom_llm_provider == EffectiveProvider(inp)
        data0 == [purpose |-> Str(inp.purpose)]
    IN  IF inp.failure.at = "pre"
        THEN Attempt(<<inp.failure.exc>>, data0, <<>>, FALSE, None, FALSE, "")
        ELSE
        LET data == add_litellm_data_to_request(data0)
            s == sniff_router_model(inp.file, enable_loadbalancing_on_batch_endpoints,
                                    llm_router)
            request == DictUpdate([file |-> Str("file data")], data)
        IN  IF s.raised # ""
            THEN Attempt(<<PlainError(s.raised, ErrorText(s.raised))>>, data, <<>>, FALSE,
                         None, FALSE, "")
            ELSE IF takes_router_branch(enable_loadbalancing_on_batch_endpoints,
                                        s.is_router_model, s.router_model)
            THEN IF llm_router = None
                 THEN Attempt(<<RouterNotInitialized>>, data, <<>>, FALSE,
                              s.router_model, s.is_router_model, "")
                 ELSE call_backend(inp, data,
                          Call("llm_router.acreate_file",
                               DictUpdate(request, [model |-> s.router_model]), None),
                          s.router_model, s.is_router_model)
            ELSE LET llm_provider_config ==
                         get_files_provider_config(custom_llm_provider, files_config)
                 IN  IF llm_provider_config.kind = "ValueError"
                     THEN Attempt(<<FilesConfigNotSet>>, data, <<>>, FALSE,
                                  s.router_model, s.is_router_model, "")
                     ELSE call_backend(inp, data,
                              Call("litellm.acreate_file",
                                   merge_provider_config(request, llm_provider_config),
                                   Str(custom_llm_provider)),
                              s.router_model, s.is_router_model)

----------------------------------------------------------------------------
(* get_file_content, get_file, delete_file, list_files *)

\* The try block the four share: the provider, the request context, one call of
\* litellm's function fn with the arguments args besides data.
provider_call_try(inp, fn, args) ==
    IF inp.failure.at = "pre"
    THEN Attempt(<<inp.failure.exc>>, EmptyDict, <<>>, FALSE, None, FALSE, "")
    ELSE LET data == add_litellm_data_to_request(EmptyDict)
         IN  call_backend(inp, data,
                 Call(fn, DictUpdate(args, data), Str(EffectiveProvider(inp))),
                 None, FALSE)

\* lines 318-371
get_file_content_try(inp) ==
    LET a == provider_call_try(inp, "litellm.afile_content", [file_id |-> Str(inp.file_id)])
    IN  IF a.exc # None THEN a
        ELSE IF ~inp.has_transport THEN [a EXCEPT !.exc = <<InvalidResponse>>, !.body = ""]
        ELSE [a EXCEPT !.body = "passthrough"]

\* lines 444-486
get_file_try(inp) ==
    provider_call_try(inp, "litellm.afile_retrieve", [file_id |-> Str(inp.file_id)])

\* delete_file as if it merged the provider's settings the way create_file does
delete_file_merging(inp) ==
    LET llm_provider_config ==
            get_files_provider_config(EffectiveProvider(inp), files_config)
    IN  IF llm_provider_config.kind = "ValueError"
        THEN Attempt(<<FilesConfigNotSet>>, EmptyDict, <<>>, FALSE, None, FALSE, "")
        ELSE provider_call_try(inp, "litellm.afile_delete",
                 merge_provider_config([file_id |-> Str(inp.file_id)], llm_provider_config))

\* lines 560-603
delete_file_try(inp) ==
    provider_call_try(inp, "litellm.afile_delete", [file_id |-> Str(inp.file_id)])

\* lines 676-719
list_files_try(inp) ==
    provider_call_try(inp, "litellm.afile_list", [purpose |-> Str(inp.purpose)])

----------------------------------------------------------------------------
(* The handlers: the try block, then the except clause *)

\* What the caller of a handler observes, with what the handler did on the way.
Outcome(inp, a) ==
    [op |-> inp.op, inp |-> inp, custom_llm_provider |-> EffectiveProvider(inp),
     exc |-> a.exc, calls |-> a.calls, success_scheduled |-> a.success_scheduled,
     router_model |-> a.router_model, is_router_model |-> a.is_router_model,
     hook_called |-> a.exc # None,
     result |-> IF a.exc = None THEN Response(a.body)
                ELSE handle_exception(a.exc[1], inp.hook_raises)]

create_file(inp) == Outcome(inp, create_file_try(inp))
get_file_content(inp) == Outcome(inp, get_file_content_try(inp))
get_file(inp) == Outcome(inp, get_file_try(inp))
delete_file(inp) == Outcome(inp, delete_file_try(inp))
list_files(inp) == Outcome(inp, list_files_try(inp))

\* No request has been handled since the last response was delivered.
NoRequest ==
    Outcome(Request("none", [provider |-> None, body_provider |-> None], EmptyFile,
                    NoFailure, FALSE, TRUE),
            Attempt(None, EmptyDict, <<>>, FALSE, None, FALSE, ""))

----------------------------------------------------------------------------
(* The specification of the handlers *)

writer == <<w_pc, w_before, w_config, w_i, w_seen>>
reader == <<r_pc, r_provider, r_result>>
globals == <<secrets, enable_loadbalancing_on_batch_endpoints, llm_router>>
vars == <<files_config, secrets, enable_loadbalancing_on_batch_endpoints, llm_router,
          last_set, list_supplied, last, w_pc, w_before, w_config, w_i, w_seen,
          r_pc, r_provider, r_result>>

\* What a lookup gave, and where the writer stood when the lookup read the global.
Lookup(result, writer_at) ==
    [kind |-> result.kind, setting |-> result.setting, writer_at |-> writer_at]
NoLookup == Lookup([kind |-> "none", setting |-> EmptyDict], "idle")

\* The record of a set_files_config call: the kind of its input, how it ended, and
\* the configuration it found (kept for the calls that did not install a list).
SetCall(config, before, outcome) ==
    [input |-> config.kind, outcome |-> outcome,
     before |-> IF config.kind = "list" /\ outcome = "returned" THEN None ELSE before]
NoSetCall == [input |-> "none", outcome |-> "none", before |-> None]

Init ==
    /\ files_config = None
    /\ secrets \in SecretStores
    /\ enable_loadbalancing_on_batch_endpoints \in BOOLEAN
    /\ llm_router \in Routers
    /\ last_set = NoSetCall
    /\ list_supplied = FALSE
    /\ last = NoRequest
    /\ w_pc = "idle" /\ w_before = None /\ w_config = <<>> /\ w_i = 1 /\ w_seen = {}
    /\ r_pc = "idle" /\ r_provider = "openai" /\ r_result = NoLookup

\* Requests are taken one at a time: a handler runs from its first line to its
\* response or exception, which is held in last until Respond delivers it. A
\* handler reads the globals once, so nothing is lost by letting no other
\* operation run between a handler and its Respond.

\* set_files_config(config), the whole call
SetFilesConfig ==
    /\ last = NoRequest
    /\ \E config \in ConfigInputs :
        LET r == set_files_config(config, files_config, secrets)
        IN  /\ files_config' = r.files_config
            /\ last_set' = SetCall(config, files_config, r.outcome)
            /\ list_supplied' = (list_supplied \/ config.kind = "list")
            /\ UNCHANGED <<globals, last, writer, reader>>

\* set_files_config called again on the records it installed: line 53 rewrote the
\* caller's list in place and line 55 bound the global to that very list, so a
\* caller that loads its configuration a second time hands the resolved records in.
SetFilesConfigAgain ==
    /\ last = NoRequest
    /\ files_config # None
    /\ LET config == [kind |-> "list", list |-> files_config[1]]
           r == set_files_config(config, files_config, secrets)
       IN  /\ files_config' = r.files_config
           /\ last_set' = [input |-> "resolved", outcome |-> r.outcome,
                           before |-> files_config]
           /\ list_supplied' = TRUE
           /\ UNCHANGED <<globals, last, writer, reader>>

Handled(outcome) ==
    /\ last' = outcome
    /\ UNCHANGED <<files_config, globals, last_set, list_supplied, writer, reader>>

CreateFile ==
    /\ last = NoRequest
    /\ \E p \in ProviderInputs, file \in FileContents, f \in Failures, h \in BOOLEAN :
        Handled(create_file(Request("create", p, file, f, h, TRUE)))

GetFileContent ==
    /\ last = NoRequest
    /\ \E p \in ProviderInputs, f \in Failures, h \in BOOLEAN, t \in BOOLEAN :
        Handled(get_file_content(Request("get_content", p, EmptyFile, f, h, t)))

GetFile ==
    /\ last = NoRequest
    /\ \E p \in ProviderInputs, f \in Failures, h \in BOOLEAN :
        Handled(get_file(Request("get", p, EmptyFile, f, h, TRUE)))

DeleteFile ==
    /\ last = NoRequest
    /\ \E p \in ProviderInputs, f \in Failures, h \in BOOLEAN :
        Handled(delete_file(Request("delete", p, EmptyFile, f, h, TRUE)))

ListFiles ==
    /\ last = NoRequest
    /\ \E p \in ProviderInputs, f \in Failures, h \in BOOLEAN :
        Handled(list_files(Request("list", p, EmptyFile, f, h, TRUE)))

\* The response (or the exception) is delivered and the request discarded.
Respond ==
    /\ last # NoRequest
    /\ last' = NoRequest
    /\ UNCHANGED <<files_config, globals, last_set, list_supplied, writer, reader>>

Next ==
    \/ SetFilesConfig
    \/ SetFilesConfigAgain
    \/ CreateFile
    \/ GetFileContent
    \/ GetFile
    \/ DeleteFile
    \/ ListFiles
    \/ Respond

Spec == Init /\ [][Next]_vars

----------------------------------------------------------------------------
(* set_files_config and get_files_provider_config step by step, as threads see  *)
(* them: the writer takes one key of one element per step and rebinds the       *)
(* global last; a reader reads the global at line 64 and again at line 66.      *)

\* The global rebound before the loops: readers see the list while it is rewritten
files_config_rebound_first(current, working, loops_done) == <<working>>

\* lines 49-55: the global while the call runs. It is rebound once, after the
\* loops; until then the list being rewritten is the caller's alone.
files_config_during_call(current, working, loops_done) ==
    IF loops_done THEN <<working>> ELSE current

\* lines 41-47: the call begins
BeginSetFilesConfig ==
    /\ w_pc = "idle"
    /\ \E config \in ConfigInputs :
        /\ list_supplied' = (list_supplied \/ config.kind = "list")
        /\ IF config.kind = "list"
           THEN /\ w_pc' = "loop"
                /\ w_before' = files_config
                /\ w_config' = config.list
                /\ w_i' = 1
                /\ w_seen' = {}
                /\ files_config' = files_config_during_call(files_config, config.list, FALSE)
                /\ UNCHANGED last_set
           ELSE /\ last_set' = SetCall(config, files_config,
                                       set_files_config(config, files_config, secrets).outcome)
                /\ UNCHANGED <<files_config, writer>>
    /\ UNCHANGED <<globals, last, reader>>

\* lines 49-53: one key of the element at w_i
ResolveStep ==
    /\ w_pc = "loop"
    /\ w_i <= Len(w_config)
    /\ \E key \in (DOMAIN w_config[w_i]) \ w_seen :
        LET value == w_config[w_i][key]
            rewritten == [w_config EXCEPT ![w_i][key] = ResolveValue(value, secrets)]
            element_done == w_seen \cup {key} = DOMAIN w_config[w_i]
        IN  IF ValueRaises(value, secrets)
            THEN /\ w_pc' = "idle"
                 /\ w_before' = None
                 /\ w_config' = <<>>
                 /\ w_i' = 1
                 /\ w_seen' = {}
                 /\ files_config' = files_config_during_call(files_config, w_config, FALSE)
                 /\ last_set' = SetCall([kind |-> "list"], w_before, "SecretError")
            ELSE /\ w_config' = rewritten
                 /\ w_i' = IF element_done THEN w_i + 1 ELSE w_i
                 /\ w_seen' = IF element_done THEN {} ELSE w_seen \cup {key}
                 /\ files_config' = files_config_during_call(files_config, rewritten, FALSE)
                 /\ UNCHANGED <<w_pc, w_before, last_set>>
    /\ UNCHANGED <<globals, list_supplied, last, reader>>

\* line 55: the global is rebound and the call returns
Publish ==
    /\ w_pc = "loop"
    /\ w_i > Len(w_config)
    /\ files_config' = files_config_during_call(files_config, w_config, TRUE)
    /\ last_set' = SetCall([kind |-> "list"], w_before, "returned")
    /\ w_pc' = "idle"
    /\ w_before' = None
    /\ w_config' = <<>>
    /\ w_i' = 1
    /\ w_seen' = {}
    /\ UNCHANGED <<globals, list_supplied, last, reader>>

LookupProviders == {"openai", "customprov", "vertex_ai", "azure"}

\* lines 62-65: the special case and the first read of the global
ReaderCheck ==
    /\ r_pc # "scan"
    /\ \E custom_llm_provider \in LookupProviders :
        LET r == provider_config_early_return(custom_llm_provider, files_config)
        IN  /\ r_provider' = custom_llm_provider
            /\ IF r.kind # "scan"
               THEN r_pc' = "done" /\ r_result' = Lookup(r, w_pc)
               ELSE r_pc' = "scan" /\ UNCHANGED r_result
    /\ UNCHANGED <<files_config, globals, last_set, list_supplied, last, writer>>

\* lines 66-69: the second read of the global and the scan of that list
ReaderScan ==
    /\ r_pc = "scan"
    /\ r_pc' = "done"
    /\ r_result' = Lookup(provider_config_scan(r_provider, files_config), w_pc)
    /\ UNCHANGED <<files_config, globals, last_set, list_supplied, last, writer, r_provider>>

InitConcurrent ==
    /\ Init
    /\ ~enable_loadbalancing_on_batch_endpoints
    /\ llm_router = None

NextConcurrent ==
    \/ BeginSetFilesConfig
    \/ ResolveStep
    \/ Publish
    \/ ReaderCheck
    \/ ReaderScan

SpecConcurrent == InitConcurrent /\ [][NextConcurrent]_vars

----------------------------------------------------------------------------
(* Properties of the handlers *)

CreateCall(o, fn) == \E i \in 1..Len(o.calls) : o.calls[i].fn = fn

\* The first line of the file is a JSON object whose body object names model m.
FirstLineNames(file, m) ==
    /\ file.utf8
    /\ Len(file.lines) >= 1
    /\ file.lines[1].text = "json"
    /\ file.lines[1].value.t = "object"
    /\ "body" \in file.lines[1].value.keys
    /\ file.lines[1].value.body.t = "object"
    /\ file.lines[1].value.body.model = Str(m)

\* The request of the latest create_file call, before any merge.
CreateRequest == [file |-> Str("file data"), purpose |-> Str(last.inp.purpose),
                  litellm_call_id |-> Str("call-1"), metadata |-> Str("caller")]

\* C1: with the flag on, a known model named by the first line and no router,
\* create_file fails with the 500 "LLM Router not initialized" error and never
\* calls the fixed-provider backend. (Stated for the requests that would reach the
\* fixed-provider backend if they fell back: a configuration is set, nothing
\* raises before the dispatch, the failure hook does not raise.)
C1_NoRouterIsFatal ==
    ( /\ last.op = "create"
      /\ enable_loadbalancing_on_batch_endpoints
      /\ llm_router = None
      /\ last.inp.failure.at # "pre"
      /\ ~last.inp.hook_raises
      /\ files_config # None
      /\ \E m \in ModelNames : FirstLineNames(last.inp.file, m) )
    => /\ last.result = normalize_exception(RouterNotInitialized)
       /\ last.result.code = 500
       /\ ~CreateCall(last, "litellm.acreate_file")

\* The router branch is wanted: flag on, a model sniffed, the router knows it.
PoolWanted ==
    /\ enable_loadbalancing_on_batch_endpoints
    /\ last.router_model # None
    /\ llm_router # None
    /\ last.router_model[1] \in llm_router[1]

RouterCreateCall ==
    Call("llm_router.acreate_file",
         [file |-> Str("file data"), purpose |-> Str(last.inp.purpose),
          litellm_call_id |-> Str("call-1"), metadata |-> Str("caller"),
          model |-> last.router_model], None)

\* The try block got as far as choosing a backend.
ReachedDispatch ==
    /\ last.inp.failure.at # "pre"
    /\ (last.exc = None \/ last.exc[1].cls \notin {"IndexError", "AttributeError"})

\* C2 as stated: with a router, create_file calls the router (with the sniffed
\* model) iff the flag is on, a model was sniffed and the router knows it, and
\* otherwise calls the fixed-provider backend: exactly one backend call either way.
\* (Stated for the requests whose collaborators and sniffer raise nothing.)
C2_ExactlyOneBackend ==
    (last.op = "create" /\ llm_router # None /\ ReachedDispatch)
    => /\ PoolWanted => last.calls = <<RouterCreateCall>>
       /\ ~PoolWanted => /\ Len(last.calls) = 1
                         /\ last.calls[1].fn = "litellm.acreate_file"

\* C2 amended: with a router, create_file calls the router, with the sniffed model,
\* iff the flag is on, a model was sniffed and the router knows it. Otherwise it
\* never calls the router, and calls the fixed-provider backend once when the
\* provider's configuration resolves (a configuration was set, or the provider is
\* vertex_ai) and not at all when it does not. No request calls two backends.
C2_DispatchDecision ==
    (last.op = "create" /\ llm_router # None)
    => /\ Len(last.calls) <= 1
       /\ CreateCall(last, "llm_router.acreate_file") <=> (PoolWanted /\ ReachedDispatch)
       /\ (PoolWanted /\ ReachedDispatch) => last.calls = <<RouterCreateCall>>
       /\ (~PoolWanted /\ ReachedDispatch)
          => IF files_config # None \/ last.custom_llm_provider = "vertex_ai"
             THEN /\ Len(last.calls) = 1
                  /\ last.calls[1].fn = "litellm.acreate_file"
                  /\ last.calls[1].custom_llm_provider = Str(last.custom_llm_provider)
             ELSE last.calls = <<>>

C2_Witness ==
    /\ last.op = "create"
    /\ llm_router # None
    /\ last.router_model = Str("gpt-4")
    /\ last.calls = <<RouterCreateCall>>
    /\ last.result.kind = "response"

\* The file names no model: one of the cases in which the sniffer finds none.
NamesNoModel(file) == \A m \in {"gpt-4", "gpt-3.5"} : ~FirstLineNames(file, m)

\* C3: whatever the uploaded bytes, the sniffer raises nothing: a file that names
\* no model goes to the fixed-provider backend and the request does not fail.
C3_SniffNeverRaises ==
    ( /\ last.op = "create"
      /\ enable_loadbalancing_on_batch_endpoints
      /\ last.inp.failure.at = "none"
      /\ NamesNoModel(last.inp.file)
      /\ (files_config # None \/ last.custom_llm_provider = "vertex_ai") )
    => /\ last.exc = None
       /\ last.router_model = None
       /\ Len(last.calls) = 1
       /\ last.calls[1].fn = "litellm.acreate_file"
       /\ last.result.kind = "response"

\* The settings record registered for the provider of the latest request.
RegisteredSetting == get_files_provider_config(last.custom_llm_provider, files_config)
Overrides(setting) == (DOMAIN setting) \ {"custom_llm_provider"}

\* C4 as stated: a delete_file request whose provider has a settings record calls
\* the backend with every override of that record among its arguments.
C4_DeleteMergesOverrides ==
    ( /\ last.op = "delete"
      /\ Len(last.calls) = 1
      /\ files_config # None
      /\ RegisteredSetting.kind = "setting" )
    => \A k \in Overrides(RegisteredSetting.setting) :
          /\ k \in DOMAIN last.calls[1].kwargs
          /\ last.calls[1].kwargs[k] = RegisteredSetting.setting[k]

\* C4 amended: delete_file does not look at the configuration. Whether or not a
\* configuration was set and whatever record the provider has, it calls
\* litellm.afile_delete with the provider, the file id and the request context
\* and nothing else; only a failure before the call prevents the call.
C4_DeleteIgnoresConfig ==
    last.op = "delete"
    => /\ last.inp.failure.at # "pre"
          => last.calls = <<Call("litellm.afile_delete",
                                 [file_id |-> Str(last.inp.file_id),
                                  litellm_call_id |-> Str("call-1"),
                                  metadata |-> Str("caller")],
                                 Str(last.custom_llm_provider))>>
       /\ last.inp.failure.at = "pre" => last.calls = <<>>

C4_Witness ==
    /\ last.op = "delete"
    /\ last.custom_llm_provider = "customprov"
    /\ files_config # None
    /\ RegisteredSetting.kind = "setting"
    /\ RegisteredSetting.setting = ElemCustom
    /\ Len(last.calls) = 1
    /\ "api_base" \notin DOMAIN last.calls[1].kwargs
    /\ last.result.kind = "response"

\* The latest request is a create_file that called the fixed-provider backend for a
\* provider with a settings record.
FixedCallWithSetting ==
    /\ last.op = "create"
    /\ Len(last.calls) = 1
    /\ last.calls[1].fn = "litellm.acreate_file"
    /\ files_config # None
    /\ RegisteredSetting.kind = "setting"

\* C5 as stated: the record only fills gaps: a key of both the request and the
\* record goes out with the request's value.
C5_RequestWins ==
    FixedCallWithSetting
    => /\ \A k \in (DOMAIN CreateRequest) \cap Overrides(RegisteredSetting.setting) :
             last.calls[1].kwargs[k] = CreateRequest[k]
       /\ "custom_llm_provider" \notin DOMAIN last.calls[1].kwargs

\* C5 amended: the record is written over the request: every key of the record but
\* custom_llm_provider goes out with the record's value, also where the request
\* has the key; the request's values go out for the keys the record lacks; the
\* record's custom_llm_provider key is dropped and the provider goes out as the
\* request's effective provider.
C5_ConfigWins ==
    FixedCallWithSetting
    => LET kwargs == last.calls[1].kwargs
           setting == RegisteredSetting.setting
       IN  /\ DOMAIN kwargs = ((DOMAIN CreateRequest) \cup (DOMAIN setting))
                                 \ {"custom_llm_provider"}
           /\ \A k \in Overrides(setting) : kwargs[k] = setting[k]
           /\ \A k \in (DOMAIN CreateRequest) \ (DOMAIN setting) : kwargs[k] = CreateRequest[k]
           /\ last.calls[1].custom_llm_provider = Str(last.custom_llm_provider)

C5_Witness ==
    /\ FixedCallWithSetting
    /\ RegisteredSetting.setting = ElemCustomPurpose
    /\ last.calls[1].kwargs["purpose"] = Str("assistants")
    /\ CreateRequest["purpose"] = Str("batch")
    /\ last.result.kind = "response"

----------------------------------------------------------------------------
(* Properties of the configuration store *)

\* The list is what a call that ran to its end installs for some input list.
WhollyResolved(list) ==
    \E l \in ConfigLists : ~ListRaises(l, secrets) /\ list = ResolveList(l, secrets)

\* The record is a record of such a list.
RecordOfResolvedList(setting) ==
    \E l \in ConfigLists :
        /\ ~ListRaises(l, secrets)
        /\ \E i \in 1..Len(l) : ResolveElement(l[i], secrets) = setting

C7_AbsentAndNonListLeaveConfig ==
    /\ last_set.input = "absent"
       => last_set.outcome = "returned" /\ files_config = last_set.before
    /\ last_set.input = "nonlist"
       => last_set.outcome = "ValueError" /\ files_config = last_set.before

C7_Witness ==
    /\ last_set.input = "absent"
    /\ last_set.outcome = "returned"
    /\ files_config # None
    /\ Len(files_config[1]) = 2

\* The latest request is a create_file that took the fixed-provider branch for a
\* provider other than vertex_ai.
CreateOnFixedPath ==
    /\ last.op = "create"
    /\ ReachedDispatch
    /\ ~takes_router_branch(enable_loadbalancing_on_batch_endpoints,
                            last.is_router_model, last.router_model)
    /\ last.custom_llm_provider # "vertex_ai"

\* C8: as long as no set_files_config call was given a list, the lookup raises
\* ValueError for every provider but vertex_ai, and a create_file request on the
\* fixed-provider branch for such a provider fails without any backend call.
C8_UnsetConfigFails ==
    ~list_supplied
    => /\ \A x \in LookupProviders \ {"vertex_ai"} :
             get_files_provider_config(x, files_config).kind = "ValueError"
       /\ CreateOnFixedPath
          => /\ last.exc = <<FilesConfigNotSet>>
             /\ last.calls = <<>>
             /\ last.result.kind # "response"

C8_Witness ==
    /\ ~list_supplied
    /\ last_set.input = "absent"
    /\ CreateOnFixedPath
    /\ last.custom_llm_provider = "customprov"
    /\ last.exc = <<FilesConfigNotSet>>
    /\ last.result = normalize_exception(FilesConfigNotSet)

\* C9: a lookup of vertex_ai returns None: when no configuration was ever set (it
\* does not raise) and when the list holds a record for vertex_ai.
C9_VertexNeverOverridden ==
    (r_pc = "done" /\ r_provider = "vertex_ai") => r_result.kind = "none"

C9_Witness ==
    /\ r_pc = "done"
    /\ r_provider = "vertex_ai"
    /\ r_result.kind = "none"
    /\ files_config # None
    /\ \E i \in 1..Len(files_config[1]) : files_config[1][i] = ElemVertex

\* C10: whatever raises inside a handler, also when the failure hook raises, the
\* caller gets a ProxyException with message, type, param and code, the code being
\* the exception's status code when it has one and 500 otherwise.
C10_EveryFailureNormalized ==
    (last.op # "none" /\ last.exc # None)
    => /\ last.result.kind = "ProxyException"
       /\ last.result.code = GetAttr(last.exc[1].status_code, 500)

\* The latest request is a get_file_content whose backend call returned a result
\* without the wrapped transport response, no collaborator having failed.
ContentWithoutTransport ==
    /\ last.op = "get_content"
    /\ last.inp.failure.at = "none"
    /\ ~last.inp.has_transport

\* C11: a get_file_content request whose backend call succeeds but whose result
\* lacks the wrapped transport response ends with a ProxyException that carries
\* the invalid-response message and code 500, and no response is passed through.
C11_MissingTransportIsGatewayError ==
    ContentWithoutTransport
    => /\ last.result.kind = "ProxyException"
       /\ last.result.message = InvalidResponse.text
       /\ last.result.code = 500
       /\ last.calls # <<>>

\* The records for openai that the store holds: those made from ElemOpenAI.
StoredOpenAI ==
    IF files_config = None THEN {}
    ELSE { files_config[1][i] : i \in { j \in 1..Len(files_config[1]) :
               files_config[1][j].custom_llm_provider = Str("openai") } }

\* C12: after set_files_config on a list whose record holds values that start with
\* "os.environ/", each such value is the secret of that name; and set_files_config
\* on the records it resolved leaves every value as it was, whatever the secret
\* store holds.
C12_RoundTripAndIdempotent ==
    /\ (last_set.input = "list" /\ last_set.outcome = "returned")
       => \A e \in StoredOpenAI :
              /\ e.api_key = secrets["OPENAI_KEY"].value
              /\ e.api_base = secrets["OPENAI_BASE"].value
    /\ last_set.input = "resolved"
       => last_set.outcome = "returned" /\ files_config = last_set.before

\* The backend call of the latest request was made and returned.
BackendReturned ==
    last.calls # <<>> /\ last.inp.failure.at # "backend"

\* The latest request failed after its backend call returned: the response headers
\* could not be built, or get_file_content found no wrapped transport response.
FailedAfterBackend ==
    /\ BackendReturned
    /\ \/ last.inp.failure.at = "headers"
       \/ last.op = "get_content" /\ ~last.inp.has_transport

\* C13 as claimed: a request for which the success notification was scheduled
\* does not also call the failure hook and end in a ProxyException.
C13_SuccessExcludesFailure ==
    last.success_scheduled
    => ~(last.hook_called /\ last.result.kind = "ProxyException")

\* C13: in each of the five handlers the success notification is scheduled exactly
\* when the backend call returned. A request that returns a response has it
\* scheduled and the failure hook not called; a request that fails before or in
\* the backend call has only the failure hook called; a request that fails after
\* the backend call returned has both.
C13_SuccessFollowsBackend ==
    last.op # "none"
    => /\ last.success_scheduled <=> BackendReturned
       /\ last.result.kind = "response" => (last.success_scheduled /\ ~last.hook_called)
       /\ (last.exc # None /\ ~BackendReturned)
          => (last.hook_called /\ ~last.success_scheduled)
       /\ (last.success_scheduled /\ last.hook_called) <=> FailedAfterBackend

C13_Witness ==
    /\ last.op = "get_content"
    /\ last.inp.failure.at = "none"
    /\ ~last.inp.has_transport
    /\ last.success_scheduled
    /\ last.hook_called
    /\ last.result = normalize_exception(InvalidResponse)

====
